---------------------------- MODULE Spec2Model ----------------------------
(***************************************************************************)
(* Model of the project engine of src/main.py: prompt -> generated site,   *)
(* rule-based chat edits, manual code updates, versions and history.       *)
(*                                                                         *)
(* Text.  A Python str is a sequence of atoms.  An atom is one character   *)
(* ("a", " ", "<"), a character that is not printable ASCII written by its *)
(* code point ("U+2014" is the em dash, "U+00E9" is e-acute, "U+000B" the  *)
(* vertical tab), or a bracketed name that stands for one fixed literal of *)
(* the source that no operation looks into ("[L55-61]" is the template     *)
(* text of lines 55-61 up to the title, "[pricing]" the inserted section). *)
(* Every literal that some replace() or `in` test inspects is spelled out  *)
(* character by character, as are prompts, chat messages and manual html,  *)
(* so that containment and replacement are computed, not assumed.          *)
(*                                                                         *)
(* Alphabet.  The characters of requests are printable ASCII, every        *)
(* character Python counts as whitespace, U+00A0 to U+017F, U+2011,        *)
(* U+2014, U+2026, U+212A, U+212B, U+1F525, and what lower() and           *)
(* capitalize() make of these.  WhiteSpace, Letters, ToLower and ToTitle   *)
(* tabulate str.isspace, str.isalpha, str.lower and the title case of      *)
(* str.capitalize on this alphabet.                                        *)
(*                                                                         *)
(* Storage.  The model follows one document of db.projects (one _id).      *)
(* Every handler filters on _id, so documents inserted by further          *)
(* create_project requests never touch it; those requests are left out.    *)
(* Timestamps (timestamp, created_at, updated_at), name and status are     *)
(* written by the handlers and never read by them; they are left out of    *)
(* the state.  datetime.now().year is the single atom "[year]": all        *)
(* renders of one run fall in one calendar year.                           *)
(***************************************************************************)
EXTENDS Integers, Sequences, FiniteSets, TLC

VARIABLES
    db,         \* "connected", or "none" when the database module gave db = None
    project,    \* the stored document of db.projects, or NoProject
    pc,         \* per worker thread: "idle" or "found" (between find_one and update_one)
    loc,        \* per worker thread: the locals of project_chat after find_one
    last        \* the last request that was answered, with its response

vars == <<db, project, pc, loc, last>>

---------------------------------------------------------------------------
(* Bounds and limits *)

\* Longest versions list explored.
MaxVersions == 3

\* prompt.strip().capitalize()[:60]
TitleLimit == 60

\* [w for w in ...][:8]
KeywordLimit == 8

---------------------------------------------------------------------------
(* Python str operations, on sequences of atoms *)

\* str.isspace(): the characters str.strip() strips and str.split() splits on.
WhiteSpace ==
    {"\t", "\n", "U+000B", "\f", "\r", "U+001C", "U+001D", "U+001E", "U+001F", " ",
     "U+0085", "U+00A0", "U+1680", "U+2000", "U+2001", "U+2002", "U+2003", "U+2004",
     "U+2005", "U+2006", "U+2007", "U+2008", "U+2009", "U+200A", "U+2028", "U+2029",
     "U+202F", "U+205F", "U+3000"}

\* str.isalpha() of one character.
Letters ==
    {"A", "B", "C", "D", "E", "F", "G", "H", "I", "J", "K", "L", "M", "N", "O", "P", "Q",
     "R", "S", "T", "U", "V", "W", "X", "Y", "Z", "a", "b", "c", "d", "e", "f", "g", "h",
     "i", "j", "k", "l", "m", "n", "o", "p", "q", "r", "s", "t", "u", "v", "w", "x", "y",
     "z", "U+00AA", "U+00B5", "U+00BA", "U+00C0", "U+00C1", "U+00C2", "U+00C3", "U+00C4",
     "U+00C5", "U+00C6", "U+00C7", "U+00C8", "U+00C9", "U+00CA", "U+00CB", "U+00CC",
     "U+00CD", "U+00CE", "U+00CF", "U+00D0", "U+00D1", "U+00D2", "U+00D3", "U+00D4",
     "U+00D5", "U+00D6", "U+00D8", "U+00D9", "U+00DA", "U+00DB", "U+00DC", "U+00DD",
     "U+00DE", "U+00DF", "U+00E0", "U+00E1", "U+00E2", "U+00E3", "U+00E4", "U+00E5",
     "U+00E6", "U+00E7", "U+00E8", "U+00E9", "U+00EA", "U+00EB", "U+00EC", "U+00ED",
     "U+00EE", "U+00EF", "U+00F0", "U+00F1", "U+00F2", "U+00F3", "U+00F4", "U+00F5",
     "U+00F6", "U+00F8", "U+00F9", "U+00FA", "U+00FB", "U+00FC", "U+00FD", "U+00FE",
     "U+00FF", "U+0100", "U+0101", "U+0102", "U+0103", "U+0104", "U+0105", "U+0106",
     "U+0107", "U+0108", "U+0109", "U+010A", "U+010B", "U+010C", "U+010D", "U+010E",
     "U+010F", "U+0110", "U+0111", "U+0112", "U+0113", "U+0114", "U+0115", "U+0116",
     "U+0117", "U+0118", "U+0119", "U+011A", "U+011B", "U+011C", "U+011D", "U+011E",
     "U+011F", "U+0120", "U+0121", "U+0122", "U+0123", "U+0124", "U+0125", "U+0126",
     "U+0127", "U+0128", "U+0129", "U+012A", "U+012B", "U+012C", "U+012D", "U+012E",
     "U+012F", "U+0130", "U+0131", "U+0132", "U+0133", "U+0134", "U+0135", "U+0136",
     "U+0137", "U+0138", "U+0139", "U+013A", "U+013B", "U+013C", "U+013D", "U+013E",
     "U+013F", "U+0140", "U+0141", "U+0142", "U+0143", "U+0144", "U+0145", "U+0146",
     "U+0147", "U+0148", "U+0149", "U+014A", "U+014B", "U+014C", "U+014D", "U+014E",
     "U+014F", "U+0150", "U+0151", "U+0152", "U+0153", "U+0154", "U+0155", "U+0156",
     "U+0157", "U+0158", "U+0159", "U+015A", "U+015B", "U+015C", "U+015D", "U+015E",
     "U+015F", "U+0160", "U+0161", "U+0162", "U+0163", "U+0164", "U+0165", "U+0166",
     "U+0167", "U+0168", "U+0169", "U+016A", "U+016B", "U+016C", "U+016D", "U+016E",
     "U+016F", "U+0170", "U+0171", "U+0172", "U+0173", "U+0174", "U+0175", "U+0176",
     "U+0177", "U+0178", "U+0179", "U+017A", "U+017B", "U+017C", "U+017D", "U+017E",
     "U+017F", "U+02BC", "U+039C", "U+03BC", "U+212A", "U+212B"}

\* str.lower() of one character, where it is not the character itself.
ToLower ==
    ("A" :> <<"a">>) @@ ("B" :> <<"b">>) @@ ("C" :> <<"c">>) @@ ("D" :> <<"d">>) @@
    ("E" :> <<"e">>) @@ ("F" :> <<"f">>) @@ ("G" :> <<"g">>) @@ ("H" :> <<"h">>) @@
    ("I" :> <<"i">>) @@ ("J" :> <<"j">>) @@ ("K" :> <<"k">>) @@ ("L" :> <<"l">>) @@
    ("M" :> <<"m">>) @@ ("N" :> <<"n">>) @@ ("O" :> <<"o">>) @@ ("P" :> <<"p">>) @@
    ("Q" :> <<"q">>) @@ ("R" :> <<"r">>) @@ ("S" :> <<"s">>) @@ ("T" :> <<"t">>) @@
    ("U" :> <<"u">>) @@ ("V" :> <<"v">>) @@ ("W" :> <<"w">>) @@ ("X" :> <<"x">>) @@
    ("Y" :> <<"y">>) @@ ("Z" :> <<"z">>) @@ ("U+00C0" :> <<"U+00E0">>) @@
    ("U+00C1" :> <<"U+00E1">>) @@ ("U+00C2" :> <<"U+00E2">>) @@
    ("U+00C3" :> <<"U+00E3">>) @@ ("U+00C4" :> <<"U+00E4">>) @@
    ("U+00C5" :> <<"U+00E5">>) @@ ("U+00C6" :> <<"U+00E6">>) @@
    ("U+00C7" :> <<"U+00E7">>) @@ ("U+00C8" :> <<"U+00E8">>) @@
    ("U+00C9" :> <<"U+00E9">>) @@ ("U+00CA" :> <<"U+00EA">>) @@
    ("U+00CB" :> <<"U+00EB">>) @@ ("U+00CC" :> <<"U+00EC">>) @@
    ("U+00CD" :> <<"U+00ED">>) @@ ("U+00CE" :> <<"U+00EE">>) @@
    ("U+00CF" :> <<"U+00EF">>) @@ ("U+00D0" :> <<"U+00F0">>) @@
    ("U+00D1" :> <<"U+00F1">>) @@ ("U+00D2" :> <<"U+00F2">>) @@
    ("U+00D3" :> <<"U+00F3">>) @@ ("U+00D4" :> <<"U+00F4">>) @@
    ("U+00D5" :> <<"U+00F5">>) @@ ("U+00D6" :> <<"U+00F6">>) @@
    ("U+00D8" :> <<"U+00F8">>) @@ ("U+00D9" :> <<"U+00F9">>) @@
    ("U+00DA" :> <<"U+00FA">>) @@ ("U+00DB" :> <<"U+00FB">>) @@
    ("U+00DC" :> <<"U+00FC">>) @@ ("U+00DD" :> <<"U+00FD">>) @@
    ("U+00DE" :> <<"U+00FE">>) @@ ("U+0100" :> <<"U+0101">>) @@
    ("U+0102" :> <<"U+0103">>) @@ ("U+0104" :> <<"U+0105">>) @@
    ("U+0106" :> <<"U+0107">>) @@ ("U+0108" :> <<"U+0109">>) @@
    ("U+010A" :> <<"U+010B">>) @@ ("U+010C" :> <<"U+010D">>) @@
    ("U+010E" :> <<"U+010F">>) @@ ("U+0110" :> <<"U+0111">>) @@
    ("U+0112" :> <<"U+0113">>) @@ ("U+0114" :> <<"U+0115">>) @@
    ("U+0116" :> <<"U+0117">>) @@ ("U+0118" :> <<"U+0119">>) @@
    ("U+011A" :> <<"U+011B">>) @@ ("U+011C" :> <<"U+011D">>) @@
    ("U+011E" :> <<"U+011F">>) @@ ("U+0120" :> <<"U+0121">>) @@
    ("U+0122" :> <<"U+0123">>) @@ ("U+0124" :> <<"U+0125">>) @@
    ("U+0126" :> <<"U+0127">>) @@ ("U+0128" :> <<"U+0129">>) @@
    ("U+012A" :> <<"U+012B">>) @@ ("U+012C" :> <<"U+012D">>) @@
    ("U+012E" :> <<"U+012F">>) @@ ("U+0130" :> <<"i", "U+0307">>) @@
    ("U+0132" :> <<"U+0133">>) @@ ("U+0134" :> <<"U+0135">>) @@
    ("U+0136" :> <<"U+0137">>) @@ ("U+0139" :> <<"U+013A">>) @@
    ("U+013B" :> <<"U+013C">>) @@ ("U+013D" :> <<"U+013E">>) @@
    ("U+013F" :> <<"U+0140">>) @@ ("U+0141" :> <<"U+0142">>) @@
    ("U+0143" :> <<"U+0144">>) @@ ("U+0145" :> <<"U+0146">>) @@
    ("U+0147" :> <<"U+0148">>) @@ ("U+014A" :> <<"U+014B">>) @@
    ("U+014C" :> <<"U+014D">>) @@ ("U+014E" :> <<"U+014F">>) @@
    ("U+0150" :> <<"U+0151">>) @@ ("U+0152" :> <<"U+0153">>) @@
    ("U+0154" :> <<"U+0155">>) @@ ("U+0156" :> <<"U+0157">>) @@
    ("U+0158" :> <<"U+0159">>) @@ ("U+015A" :> <<"U+015B">>) @@
    ("U+015C" :> <<"U+015D">>) @@ ("U+015E" :> <<"U+015F">>) @@
    ("U+0160" :> <<"U+0161">>) @@ ("U+0162" :> <<"U+0163">>) @@
    ("U+0164" :> <<"U+0165">>) @@ ("U+0166" :> <<"U+0167">>) @@
    ("U+0168" :> <<"U+0169">>) @@ ("U+016A" :> <<"U+016B">>) @@
    ("U+016C" :> <<"U+016D">>) @@ ("U+016E" :> <<"U+016F">>) @@
    ("U+0170" :> <<"U+0171">>) @@ ("U+0172" :> <<"U+0173">>) @@
    ("U+0174" :> <<"U+0175">>) @@ ("U+0176" :> <<"U+0177">>) @@
    ("U+0178" :> <<"U+00FF">>) @@ ("U+0179" :> <<"U+017A">>) @@
    ("U+017B" :> <<"U+017C">>) @@ ("U+017D" :> <<"U+017E">>) @@
    ("U+039C" :> <<"U+03BC">>) @@ ("U+212A" :> <<"k">>) @@ ("U+212B" :> <<"U+00E5">>)

\* str.capitalize() of one character (its title case), where it is not the
\* character itself.
ToTitle ==
    ("a" :> <<"A">>) @@ ("b" :> <<"B">>) @@ ("c" :> <<"C">>) @@ ("d" :> <<"D">>) @@
    ("e" :> <<"E">>) @@ ("f" :> <<"F">>) @@ ("g" :> <<"G">>) @@ ("h" :> <<"H">>) @@
    ("i" :> <<"I">>) @@ ("j" :> <<"J">>) @@ ("k" :> <<"K">>) @@ ("l" :> <<"L">>) @@
    ("m" :> <<"M">>) @@ ("n" :> <<"N">>) @@ ("o" :> <<"O">>) @@ ("p" :> <<"P">>) @@
    ("q" :> <<"Q">>) @@ ("r" :> <<"R">>) @@ ("s" :> <<"S">>) @@ ("t" :> <<"T">>) @@
    ("u" :> <<"U">>) @@ ("v" :> <<"V">>) @@ ("w" :> <<"W">>) @@ ("x" :> <<"X">>) @@
    ("y" :> <<"Y">>) @@ ("z" :> <<"Z">>) @@ ("U+00B5" :> <<"U+039C">>) @@
    ("U+00DF" :> <<"S", "s">>) @@ ("U+00E0" :> <<"U+00C0">>) @@
    ("U+00E1" :> <<"U+00C1">>) @@ ("U+00E2" :> <<"U+00C2">>) @@
    ("U+00E3" :> <<"U+00C3">>) @@ ("U+00E4" :> <<"U+00C4">>) @@
    ("U+00E5" :> <<"U+00C5">>) @@ ("U+00E6" :> <<"U+00C6">>) @@
    ("U+00E7" :> <<"U+00C7">>) @@ ("U+00E8" :> <<"U+00C8">>) @@
    ("U+00E9" :> <<"U+00C9">>) @@ ("U+00EA" :> <<"U+00CA">>) @@
    ("U+00EB" :> <<"U+00CB">>) @@ ("U+00EC" :> <<"U+00CC">>) @@
    ("U+00ED" :> <<"U+00CD">>) @@ ("U+00EE" :> <<"U+00CE">>) @@
    ("U+00EF" :> <<"U+00CF">>) @@ ("U+00F0" :> <<"U+00D0">>) @@
    ("U+00F1" :> <<"U+00D1">>) @@ ("U+00F2" :> <<"U+00D2">>) @@
    ("U+00F3" :> <<"U+00D3">>) @@ ("U+00F4" :> <<"U+00D4">>) @@
    ("U+00F5" :> <<"U+00D5">>) @@ ("U+00F6" :> <<"U+00D6">>) @@
    ("U+00F8" :> <<"U+00D8">>) @@ ("U+00F9" :> <<"U+00D9">>) @@
    ("U+00FA" :> <<"U+00DA">>) @@ ("U+00FB" :> <<"U+00DB">>) @@
    ("U+00FC" :> <<"U+00DC">>) @@ ("U+00FD" :> <<"U+00DD">>) @@
    ("U+00FE" :> <<"U+00DE">>) @@ ("U+00FF" :> <<"U+0178">>) @@
    ("U+0101" :> <<"U+0100">>) @@ ("U+0103" :> <<"U+0102">>) @@
    ("U+0105" :> <<"U+0104">>) @@ ("U+0107" :> <<"U+0106">>) @@
    ("U+0109" :> <<"U+0108">>) @@ ("U+010B" :> <<"U+010A">>) @@
    ("U+010D" :> <<"U+010C">>) @@ ("U+010F" :> <<"U+010E">>) @@
    ("U+0111" :> <<"U+0110">>) @@ ("U+0113" :> <<"U+0112">>) @@
    ("U+0115" :> <<"U+0114">>) @@ ("U+0117" :> <<"U+0116">>) @@
    ("U+0119" :> <<"U+0118">>) @@ ("U+011B" :> <<"U+011A">>) @@
    ("U+011D" :> <<"U+011C">>) @@ ("U+011F" :> <<"U+011E">>) @@
    ("U+0121" :> <<"U+0120">>) @@ ("U+0123" :> <<"U+0122">>) @@
    ("U+0125" :> <<"U+0124">>) @@ ("U+0127" :> <<"U+0126">>) @@
    ("U+0129" :> <<"U+0128">>) @@ ("U+012B" :> <<"U+012A">>) @@
    ("U+012D" :> <<"U+012C">>) @@ ("U+012F" :> <<"U+012E">>) @@ ("U+0131" :> <<"I">>) @@
    ("U+0133" :> <<"U+0132">>) @@ ("U+0135" :> <<"U+0134">>) @@
    ("U+0137" :> <<"U+0136">>) @@ ("U+013A" :> <<"U+0139">>) @@
    ("U+013C" :> <<"U+013B">>) @@ ("U+013E" :> <<"U+013D">>) @@
    ("U+0140" :> <<"U+013F">>) @@ ("U+0142" :> <<"U+0141">>) @@
    ("U+0144" :> <<"U+0143">>) @@ ("U+0146" :> <<"U+0145">>) @@
    ("U+0148" :> <<"U+0147">>) @@ ("U+0149" :> <<"U+02BC", "N">>) @@
    ("U+014B" :> <<"U+014A">>) @@ ("U+014D" :> <<"U+014C">>) @@
    ("U+014F" :> <<"U+014E">>) @@ ("U+0151" :> <<"U+0150">>) @@
    ("U+0153" :> <<"U+0152">>) @@ ("U+0155" :> <<"U+0154">>) @@
    ("U+0157" :> <<"U+0156">>) @@ ("U+0159" :> <<"U+0158">>) @@
    ("U+015B" :> <<"U+015A">>) @@ ("U+015D" :> <<"U+015C">>) @@
    ("U+015F" :> <<"U+015E">>) @@ ("U+0161" :> <<"U+0160">>) @@
    ("U+0163" :> <<"U+0162">>) @@ ("U+0165" :> <<"U+0164">>) @@
    ("U+0167" :> <<"U+0166">>) @@ ("U+0169" :> <<"U+0168">>) @@
    ("U+016B" :> <<"U+016A">>) @@ ("U+016D" :> <<"U+016C">>) @@
    ("U+016F" :> <<"U+016E">>) @@ ("U+0171" :> <<"U+0170">>) @@
    ("U+0173" :> <<"U+0172">>) @@ ("U+0175" :> <<"U+0174">>) @@
    ("U+0177" :> <<"U+0176">>) @@ ("U+017A" :> <<"U+0179">>) @@
    ("U+017C" :> <<"U+017B">>) @@ ("U+017E" :> <<"U+017D">>) @@ ("U+017F" :> <<"S">>) @@
    ("U+03BC" :> <<"U+039C">>)

SetMin(S) == CHOOSE x \in S : \A y \in S : x <= y

SetMax(S) == CHOOSE x \in S : \A y \in S : y <= x

\* The concatenation of the sequences of a sequence.
RECURSIVE concat(_)
concat(parts) == IF parts = <<>> THEN <<>> ELSE Head(parts) \o concat(Tail(parts))

\* str.lower(): character by character; a character may become several
lower(s) ==
    concat([n \in 1..Len(s) |-> IF s[n] \in DOMAIN ToLower THEN ToLower[s[n]] ELSE <<s[n]>>])

\* str.strip()
strip(s) ==
    LET keep == {n \in 1..Len(s) : s[n] \notin WhiteSpace}
    IN  IF keep = {} THEN <<>> ELSE SubSeq(s, SetMin(keep), SetMax(keep))

\* A capitalize() that leaves the characters after the first as they are.
capitalize_first_only(s) ==
    IF s = <<>> THEN <<>>
    ELSE (IF s[1] \in DOMAIN ToTitle THEN ToTitle[s[1]] ELSE <<s[1]>>) \o Tail(s)

\* str.capitalize(): the first character in title case (which may be several
\* characters), every other one lower-cased
capitalize(s) ==
    IF s = <<>> THEN <<>>
    ELSE (IF s[1] \in DOMAIN ToTitle THEN ToTitle[s[1]] ELSE <<s[1]>>) \o lower(Tail(s))

\* s[:n]
slice(s, n) == SubSeq(s, 1, IF Len(s) < n THEN Len(s) ELSE n)

\* s[at:].startswith(sub)
MatchAt(s, sub, at) ==
    /\ at + Len(sub) - 1 <= Len(s)
    /\ \A n \in 1..Len(sub) : s[at + n - 1] = sub[n]

\* sub in s
contains(s, sub) == \E at \in 1..(Len(s) - Len(sub) + 1) : MatchAt(s, sub, at)

\* str.replace(old, new): every non-overlapping occurrence, left to right
RECURSIVE replace(_, _, _)
replace(s, old, new) ==
    LET hits == {at \in 1..(Len(s) - Len(old) + 1) : MatchAt(s, old, at)}
    IN  IF hits = {} THEN s
        ELSE LET at == SetMin(hits)
             IN  SubSeq(s, 1, at - 1) \o new
                   \o replace(SubSeq(s, at + Len(old), Len(s)), old, new)

\* str.split(): the maximal runs of non-whitespace, in order
split(s) ==
    LET starts == {n \in 1..Len(s) :
                      s[n] \notin WhiteSpace /\ (n = 1 \/ s[n - 1] \in WhiteSpace)}
        EndOf(a) == SetMin({n \in a..Len(s) : n = Len(s) \/ s[n + 1] \in WhiteSpace})
        Nth(k) == CHOOSE a \in starts : Cardinality({b \in starts : b <= a}) = k
    IN  [k \in 1..Cardinality(starts) |-> SubSeq(s, Nth(k), EndOf(Nth(k)))]

\* str.isalpha()
isalpha(w) == w # <<>> /\ \A n \in 1..Len(w) : w[n] \in Letters

\* sep.join(words)
RECURSIVE join(_, _)
join(sep, words) ==
    IF words = <<>> THEN <<>>
    ELSE IF Len(words) = 1 THEN words[1]
    ELSE words[1] \o sep \o join(sep, Tail(words))

---------------------------------------------------------------------------
(* Literals of the source that the edits inspect or write *)

KeySciFiHyphen ==
    <<"s", "c", "i", "-", "f", "i">>
KeySciFiSpace ==
    <<"s", "c", "i", " ", "f", "i">>
KeyMakeItDark ==
    <<"m", "a", "k", "e", " ", "i", "t", " ", "d", "a", "r", "k">>
KeyDarkMode ==
    <<"d", "a", "r", "k", " ", "m", "o", "d", "e">>
KeyAddPricing ==
    <<"a", "d", "d", " ", "p", "r", "i", "c", "i", "n", "g">>
KeyPricing ==
    <<"p", "r", "i", "c", "i", "n", "g">>
KeyChangeAccent ==
    <<"c", "h", "a", "n", "g", "e", " ", "a", "c", "c", "e", "n", "t">>
KeyMakeItCrimson ==
    <<"m", "a", "k", "e", " ", "i", "t", " ", "c", "r", "i", "m", "s", "o", "n">>
KeyCrimson ==
    <<"c", "r", "i", "m", "s", "o", "n">>

BaseBackground ==
    <<"#", "0", "b", "0", "b", "1", "0">>
SciFiBackground ==
    <<"#", "0", "5", "0", "6", "0", "a">>
DarkBackground ==
    <<"#", "0", "a", "0", "a", "0", "a">>
GlowColor ==
    <<"r", "g", "b", "a", "(", "9", "9", ",", "1", "0", "2", ",", "2", "4", "1", ",", "0", ".",
      "1", "5", ")">>
SciFiGlowColor ==
    <<"r", "g", "b", "a", "(", "5", "6", ",", "1", "8", "9", ",", "2", "4", "8", ",", "0", ".",
      "1", "8", ")">>
MarketingPhrase ==
    <<"P", "r", "o", "d", "u", "c", "t", "i", "o", "n", "-", "r", "e", "a", "d", "y">>
SciFiPhrase ==
    <<"S", "c", "i", "U+2011", "f", "i", " ", "n", "e", "o", "n", " ", "a", "e", "s", "t", "h",
      "e", "t", "i", "c", " ", "w", "i", "t", "h", " ", "h", "o", "l", "o", "g", "r", "a", "p",
      "h", "i", "c", " ", "a", "c", "c", "e", "n", "t", "s">>
MainClose ==
    <<"<", "/", "m", "a", "i", "n", ">">>
AccentProperty ==
    <<"-", "-", "a", "c", "c", "e", "n", "t", ":", " ">>
DefaultAccent ==
    <<"#", "D", "C", "1", "4", "3", "C">>
RecolorAccent ==
    <<"#", "b", "8", "0", "f", "2", "a">>
FallbackTitle ==
    <<"C", "r", "i", "M", "U+1F525", "S", "o", "n", " ", "S", "i", "t", "e">>
CombineSeparator ==
    <<" ", "U+2014", " ">>
KeywordSeparator ==
    <<",", " ">>

\* The pricing section of lines 311-320 followed by "\n    ": what precedes
\* "</main>" in the replacement text of line 321.
PricingInsertion == <<"[pricing]">>

\* Notes and fixed messages: compared, never inspected.
NoteInitial == <<"Initial generation">>
NoteManual == <<"Manual edit">>
NoteSciFi == <<"Applied sci-fi theme">>
NoteDark == <<"Darkened base colors">>
NotePricing == <<"Added pricing section">>
NoteAccent == <<"Adjusted accent color">>
NoteRegenerated == <<"Regenerated site with new instruction">>
GeneratedInitialSite == <<"Generated initial site">>

---------------------------------------------------------------------------
(* MetadataExtractor and DocumentSynthesizer *)

seo_title(prompt) ==
    LET title == slice(capitalize(strip(prompt)), TitleLimit)
    IN  IF title = <<>> THEN FallbackTitle ELSE title

seo_description(prompt) == <<"[Auto-generated website: ]">> \o strip(prompt)

seo_keywords(prompt) ==
    join(KeywordSeparator, slice(SelectSeq(split(lower(prompt)), isalpha), KeywordLimit))

seo_from_prompt(prompt) ==
    [title |-> seo_title(prompt),
     description |-> seo_description(prompt),
     keywords |-> seo_keywords(prompt)]

generate_site_html(prompt, accent) ==
    LET seo == seo_from_prompt(prompt)
    IN  <<"[L55-61]">> \o seo.title
          \o <<"[L61-62]">> \o seo.description
          \o <<"[L62-63]">> \o seo.keywords
          \o <<"[L63-69]">> \o AccentProperty \o accent
          \o <<"[L69-73]">> \o GlowColor
          \o <<"[L73-74]">> \o BaseBackground
          \o <<"[L74-98]">> \o prompt
          \o <<"[L98-99]">> \o MarketingPhrase
          \o <<"[L99-170]">> \o MainClose
          \o <<"[L170-173]", "[year]", "[L173-177]">>

---------------------------------------------------------------------------
(* The rule cascade of project_chat *)

SciFiTheme(html) ==
    replace(replace(replace(html, BaseBackground, SciFiBackground),
                    GlowColor, SciFiGlowColor),
            MarketingPhrase, SciFiPhrase)

\* A dark mode that also darkens the background the sci-fi theme wrote.
DarkModeAnyBackground(html) ==
    replace(replace(html, BaseBackground, DarkBackground), SciFiBackground, DarkBackground)

DarkMode(html) == replace(html, BaseBackground, DarkBackground)

\* A pricing edit that skips a document that already has a pricing section.
AddPricingOnce(html) ==
    IF contains(html, PricingInsertion) THEN html
    ELSE replace(html, MainClose, PricingInsertion \o MainClose)

AddPricing(html) == replace(html, MainClose, PricingInsertion \o MainClose)

AccentRecolor(html) ==
    replace(html, AccentProperty \o DefaultAccent, AccentProperty \o RecolorAccent)

\* A regeneration from the instruction alone, without the stored prompt.
RegenerateMessageOnly(doc, message) == generate_site_html(message, DefaultAccent)

Regenerate(doc, message) ==
    generate_site_html(doc.prompt \o CombineSeparator \o message, DefaultAccent)

\* The cascade with the pricing rule tested before the dark-mode rule.
ApplyInstructionPricingFirst(doc, message) ==
    LET msg == lower(message)
        html == doc.html
    IN  IF contains(msg, KeySciFiHyphen) \/ contains(msg, KeySciFiSpace)
        THEN [html |-> SciFiTheme(html), note |-> NoteSciFi]
        ELSE IF contains(msg, KeyAddPricing) \/ contains(msg, KeyPricing)
        THEN [html |-> AddPricing(html), note |-> NotePricing]
        ELSE IF contains(msg, KeyMakeItDark) \/ contains(msg, KeyDarkMode)
        THEN [html |-> DarkMode(html), note |-> NoteDark]
        ELSE IF contains(msg, KeyChangeAccent) \/ contains(msg, KeyMakeItCrimson)
                  \/ contains(msg, KeyCrimson)
        THEN [html |-> AccentRecolor(html), note |-> NoteAccent]
        ELSE [html |-> Regenerate(doc, message), note |-> NoteRegenerated]

\* Lines 298-330: the new html and the note for a stored document and a message.
ApplyInstruction(doc, message) ==
    LET msg == lower(message)
        html == doc.html
    IN  IF contains(msg, KeySciFiHyphen) \/ contains(msg, KeySciFiSpace)
        THEN [html |-> SciFiTheme(html), note |-> NoteSciFi]
        ELSE IF contains(msg, KeyMakeItDark) \/ contains(msg, KeyDarkMode)
        THEN [html |-> DarkMode(html), note |-> NoteDark]
        ELSE IF contains(msg, KeyAddPricing) \/ contains(msg, KeyPricing)
        THEN [html |-> AddPricing(html), note |-> NotePricing]
        ELSE IF contains(msg, KeyChangeAccent) \/ contains(msg, KeyMakeItCrimson)
                  \/ contains(msg, KeyCrimson)
        THEN [html |-> AccentRecolor(html), note |-> NoteAccent]
        ELSE [html |-> Regenerate(doc, message), note |-> NoteRegenerated]

---------------------------------------------------------------------------
(* Inputs *)

PromptBakery ==
    <<" ", "a", " ", "B", "a", "k", "e", "r", "y", " ">>
PromptBlank ==
    <<" ", "\r", "U+00A0">>
PromptEmpty ==
    <<>>
PromptMainClose ==
    <<"s", "h", "o", "p", " ", "<", "/", "m", "a", "i", "n", ">">>
PromptUpperMainClose ==
    <<"g", "o", " ", "<", "/", "M", "A", "I", "N", ">">>
PromptLong ==
    <<"U+00DF", "a", " ", "U+00C9", "d", " ", "U+00DF", "a", " ", "U+00C9", "d", " ",
      "U+00DF", "a", " ", "U+00C9", "d", " ", "U+00DF", "a", " ", "U+00C9", "d", " ",
      "U+00DF", "a", " ", "U+00C9", "d", " ", "U+00DF", "a", " ", "U+00C9", "d", " ",
      "U+00DF", "a", " ", "U+00C9", "d", " ", "U+00DF", "a", " ", "U+00C9", "d", " ",
      "U+00DF", "a", " ", "U+00C9", "d", " ", "U+00DF", "a", " ", "U+00C9", "d", " ",
      "U+00DF", "a", " ", "U+00C9", "d", " ">>
MsgPricingAndDarkMode ==
    <<"p", "r", "i", "c", "i", "n", "g", " ", "a", "n", "d", " ", "d", "a", "r", "k", " ",
      "m", "o", "d", "e">>
MsgCrimsonSciFi ==
    <<"c", "r", "i", "m", "s", "o", "n", " ", "s", "c", "i", "-", "f", "i">>
MsgDarkModeCaps ==
    <<"D", "a", "r", "k", " ", "M", "o", "d", "e">>
MsgAddPricing ==
    <<"a", "d", "d", " ", "p", "r", "i", "c", "i", "n", "g">>
MsgSciFiSpace ==
    <<"S", "c", "i", " ", "F", "i">>
MsgChangeAccent ==
    <<"c", "h", "a", "n", "g", "e", " ", "a", "c", "c", "e", "n", "t">>
MsgRetro ==
    <<"r", "e", "t", "r", "o", " ", "8", "-", "b", "i", "t", " ", "v", "i", "b", "e">>
MsgKelvinDarkMode ==
    <<"d", "a", "r", "U+212A", " ", "m", "o", "d", "e">>
MsgCafe ==
    <<"c", "a", "f", "U+00E9", " ", "v", "i", "b", "e", "\r", "\n">>
MsgEmpty ==
    <<>>
ManualPlain ==
    <<"<", "p", ">", "h", "i", "<", "/", "p", ">">>
ManualMarkers ==
    <<"<", "m", "a", "i", "n", ">", "#", "0", "b", "0", "b", "1", "0", "<", "/", "m", "a",
      "i", "n", ">">>
Guest == <<"g", "u", "e", "s", "t">>

Alice == <<"a", "l", "i", "c", "e">>

\* The X-User-Id header of a request: absent (None), or present with a value.
NoHeader == [present |-> FALSE, value |-> <<>>]
HeaderEmpty == [present |-> TRUE, value |-> <<>>]
HeaderAlice == [present |-> TRUE, value |-> Alice]

\* Requests of the clients when handlers of two threads overlap (Spec).
Prompts == {PromptBakery}
Instructions == {MsgAddPricing, MsgDarkModeCaps, MsgRetro, MsgCrimsonSciFi}
ManualDocs == {ManualPlain}
Headers == {NoHeader, HeaderAlice}

\* Requests of the clients when one thread runs project_chat (SpecSolo).
AllPrompts ==
    {PromptBakery, PromptBlank, PromptEmpty, PromptMainClose, PromptUpperMainClose, PromptLong}
AllInstructions ==
    {MsgPricingAndDarkMode, MsgCrimsonSciFi, MsgDarkModeCaps, MsgAddPricing, MsgSciFiSpace,
     MsgChangeAccent, MsgRetro, MsgKelvinDarkMode, MsgCafe, MsgEmpty}
AllManualDocs == {ManualPlain, ManualMarkers}
SoloHeaders == {NoHeader, HeaderEmpty}

\* The threads of the server's pool that run project_chat.
Workers == {1, 2}

\* One such thread.
SoloWorkers == {1}

---------------------------------------------------------------------------
(* State *)

NoProject ==
    [exists |-> FALSE, user_id |-> <<>>, prompt |-> <<>>, html |-> <<>>, versions |-> <<>>,
     history |-> <<>>]

NoLocals == [message |-> <<>>, doc |-> <<>>, html |-> <<>>, note |-> <<>>]

\* A request and its response: op, its argument, the html that find_one
\* returned (chat only), the HTTP status, and the note and html of the body.
Answer(op, arg, doc, status, note, html) ==
    [op |-> op, arg |-> arg, doc |-> doc, status |-> status, note |-> note, html |-> html]

\* raise HTTPException(status_code=status): the body holds a fixed detail.
Failure(op, status) == Answer(op, <<>>, <<>>, status, <<>>, <<>>)

Init ==
    /\ db \in {"connected", "none"}
    /\ project = NoProject
    /\ pc = [w \in Workers |-> "idle"]
    /\ loc = [w \in Workers |-> NoLocals]
    /\ last = Answer("none", <<>>, <<>>, 0, <<>>, <<>>)

---------------------------------------------------------------------------
(* Storage updates *)

\* x_user_id or "guest"
user_of(header) == IF header.present /\ header.value # <<>> THEN header.value ELSE Guest

\* The filter {"_id": ..., "user_id": x_user_id or "guest"} matches the document.
Owns(header) == project.exists /\ project.user_id = user_of(header)

\* create_document("projects", project), lines 226-242
InsertProject(user, prompt, html) ==
    [exists |-> TRUE,
     user_id |-> user,
     prompt |-> prompt,
     html |-> html,
     versions |-> <<[html |-> html, note |-> NoteInitial]>>,
     history |-> <<[role |-> "user", content |-> prompt],
                   [role |-> "assistant", content |-> GeneratedInitialSite]>>]

\* update_one of update_code, lines 276-282: one atomic $set and $push
PushManual(doc, html) ==
    [doc EXCEPT !.html = html,
                !.versions = Append(@, [html |-> html, note |-> NoteManual])]

\* An update that sets the html and the history but pushes no version.
PushEditNoVersion(doc, message, html, note) ==
    [doc EXCEPT !.html = html,
                !.history = Append(@, [role |-> "assistant", content |-> note])]

\* An update that pushes a version only when the edit changed the html.
PushEditIfChanged(doc, message, html, note) ==
    [doc EXCEPT !.html = html,
                !.history = Append(@, [role |-> "assistant", content |-> note]),
                !.versions = IF html = doc.html THEN @
                             ELSE Append(@, [html |-> html, note |-> note])]

\* update_one of project_chat, lines 332-342: one atomic $set and $push.  The
\* "$push" dict literal names the key "history" twice; a Python dict keeps the
\* last value of a repeated key, so only the assistant entry is pushed.
PushEdit(doc, message, html, note) ==
    [doc EXCEPT !.html = html,
                !.history = Append(@, [role |-> "assistant", content |-> note]),
                !.versions = Append(@, [html |-> html, note |-> note])]

---------------------------------------------------------------------------
(* Handlers *)

\* POST /projects, for the request that inserts the document the model follows.
create_project(prompt, header) ==
    /\ IF db = "none"
       THEN /\ last' = Failure("create", 500)
            /\ UNCHANGED project
       ELSE /\ ~project.exists
            /\ LET html == generate_site_html(prompt, DefaultAccent)
               IN  /\ project' = InsertProject(user_of(header), prompt, html)
                   /\ last' = Answer("create", prompt, <<>>, 200, <<>>, html)
    /\ UNCHANGED <<db, pc, loc>>

\* PUT /projects/{id}/code: one update_one filtered on _id and user_id.
update_code(html, header) ==
    /\ IF db = "none"
       THEN /\ last' = Failure("code", 500)
            /\ UNCHANGED project
       ELSE IF Owns(header)
       THEN /\ Len(project.versions) < MaxVersions
            /\ project' = PushManual(project, html)
            /\ last' = Answer("code", html, <<>>, 200, <<>>, <<>>)
       ELSE /\ last' = Failure("code", 404)
            /\ UNCHANGED project
    /\ UNCHANGED <<db, pc, loc>>

\* POST /projects/{id}/chat on thread w, lines 291-330: the db check, find_one
\* filtered on _id and user_id, and the edit of the local copy.
chat_find(w, message, header) ==
    /\ pc[w] = "idle"
    /\ IF db = "none"
       THEN /\ last' = Failure("chat", 500)
            /\ UNCHANGED <<pc, loc>>
       ELSE IF Owns(header)
       THEN /\ Len(project.versions) < MaxVersions
            /\ LET edit == ApplyInstruction(project, message)
               IN  /\ pc' = [pc EXCEPT ![w] = "found"]
                   /\ loc' = [loc EXCEPT ![w] = [message |-> message, doc |-> project.html,
                                                 html |-> edit.html, note |-> edit.note]]
            /\ UNCHANGED last
       ELSE /\ last' = Failure("chat", 404)
            /\ UNCHANGED <<pc, loc>>
    /\ UNCHANGED <<db, project>>

\* POST /projects/{id}/chat on thread w, lines 332-344: update_one filtered on
\* _id alone, and the response.
chat_update(w) ==
    /\ pc[w] = "found"
    /\ Len(project.versions) < MaxVersions
    /\ project' = PushEdit(project, loc[w].message, loc[w].html, loc[w].note)
    /\ last' = Answer("chat", loc[w].message, loc[w].doc, 200, loc[w].note, loc[w].html)
    /\ pc' = [pc EXCEPT ![w] = "idle"]
    /\ loc' = [loc EXCEPT ![w] = NoLocals]
    /\ UNCHANGED db

---------------------------------------------------------------------------
(* Specifications *)

\* Handlers of two threads overlap between find_one and update_one.
Next ==
    \/ \E prompt \in Prompts, header \in Headers : create_project(prompt, header)
    \/ \E html \in ManualDocs, header \in Headers : update_code(html, header)
    \/ \E w \in Workers, message \in Instructions, header \in Headers :
          chat_find(w, message, header)
    \/ \E w \in Workers : chat_update(w)

Spec == Init /\ [][Next]_vars

\* One thread runs project_chat, next to the threads of the other handlers;
\* the requests range over all the texts above.
NextSolo ==
    \/ \E prompt \in AllPrompts, header \in SoloHeaders : create_project(prompt, header)
    \/ \E html \in AllManualDocs, header \in SoloHeaders : update_code(html, header)
    \/ \E w \in SoloWorkers, message \in AllInstructions, header \in SoloHeaders :
          chat_find(w, message, header)
    \/ \E w \in SoloWorkers : chat_update(w)

SpecSolo == Init /\ [][NextSolo]_vars

\* The storage is outside the program: find_one returns whatever document the
\* collection holds, also one that no handler of this program wrote.
StoredProjects ==
    LET html == generate_site_html(PromptBakery, DefaultAccent)
        doc == InsertProject(Guest, PromptBakery, html)
    IN  {NoProject,
         doc,
         [doc EXCEPT !.versions = <<>>],
         [doc EXCEPT !.versions = <<>>, !.history = <<>>]}

InitStored ==
    /\ db = "connected"
    /\ project \in StoredProjects
    /\ pc = [w \in Workers |-> "idle"]
    /\ loc = [w \in Workers |-> NoLocals]
    /\ last = Answer("none", <<>>, <<>>, 0, <<>>, <<>>)

SpecStored == InitStored /\ [][Next]_vars

---------------------------------------------------------------------------
(* Vocabulary of the properties *)

Versions == project.versions

LastOf(s) == s[Len(s)]

\* The number of places where sub occurs in s.
Occurrences(s, sub) ==
    Cardinality({at \in 1..(Len(s) - Len(sub) + 1) : MatchAt(s, sub, at)})

\* The ordered rules of the interpreter, as the design states them.
Rules ==
    <<[kind |-> "SciFiTheme", note |-> NoteSciFi,
       keys |-> {KeySciFiHyphen, KeySciFiSpace},
       targets |-> {BaseBackground, GlowColor, MarketingPhrase}],
      [kind |-> "DarkMode", note |-> NoteDark,
       keys |-> {KeyMakeItDark, KeyDarkMode},
       targets |-> {BaseBackground}],
      [kind |-> "AddPricing", note |-> NotePricing,
       keys |-> {KeyAddPricing, KeyPricing},
       targets |-> {MainClose}],
      [kind |-> "AccentRecolor", note |-> NoteAccent,
       keys |-> {KeyChangeAccent, KeyMakeItCrimson, KeyCrimson},
       targets |-> {AccentProperty \o DefaultAccent}]>>

\* The rules with a keyword in the lower-cased instruction.
Matching(message) ==
    {r \in 1..Len(Rules) : \E key \in Rules[r].keys : contains(lower(message), key)}

IsRegenerate(message) == Matching(message) = {}

FirstMatch(message) == Rules[SetMin(Matching(message))]

ExpectedNote(message) ==
    IF IsRegenerate(message) THEN NoteRegenerated ELSE FirstMatch(message).note

\* The last answer is that of a chat edit that went through.
ChatAnswered == last.op = "chat" /\ last.status = 200

\* The title field of a synthesized document: what lies between the text
\* of lines 55-61 and the text of lines 61-62.
TitleIn(html) ==
    SubSeq(html, 2, SetMin({n \in 1..Len(html) : html[n] = "[L61-62]"}) - 1)

---------------------------------------------------------------------------
(* C1 *)

\* C1: in every reachable state of an existing project, under every
\* interleaving of creation, chat edits and manual updates, the current
\* document (html) is the document of the last entry of versions.
C1_CurrentIsLastVersion ==
    project.exists =>
        /\ Versions # <<>>
        /\ project.html = LastOf(Versions).html

\* Two edits and more are committed while a chat edit that read an older
\* document is still between its find_one and its update_one.
C1_Witness ==
    /\ project.exists
    /\ Len(Versions) >= 3
    /\ \E n \in 2..Len(Versions) : Versions[n].note = NoteManual
    /\ \E w \in Workers : pc[w] = "found" /\ loc[w].doc # project.html

---------------------------------------------------------------------------
(* C2 *)

\* C2: every chat edit that goes through with instruction i appends exactly
\* two entries to the conversation, first (user, i), then (assistant, note of
\* the applied change).
C2_ChatAppendsUserThenAssistant ==
    [][\A w \in SoloWorkers :
         chat_update(w) =>
             project'.history = project.history \o
                 <<[role |-> "user", content |-> loc[w].message],
                   [role |-> "assistant", content |-> last'.note]>>]_vars

---------------------------------------------------------------------------
(* C3 *)

\* C3: overlapping chat edits of one project are serialized: the document a
\* chat edit commits is the transformation, by its instruction, of the
\* document committed just before it (here: by creation or by another chat
\* edit), never of an older one.
C3_ChatEditsSerialized ==
    [][\A w \in Workers :
         (chat_update(w) /\ LastOf(Versions).note # NoteManual) =>
             project'.html = ApplyInstruction(project, loc[w].message).html]_vars

---------------------------------------------------------------------------
(* C4 *)

\* A step that commits a chat edit or a manual update of the existing project.
CommitStep ==
    \/ \E w \in Workers : chat_update(w)
    \/ \E html \in ManualDocs, header \in Headers : Owns(header) /\ update_code(html, header)

\* C4: every commit of a chat edit (also one whose replacement is a no-op) or
\* of a manual update makes versions longer by exactly 1; no step changes or
\* moves an earlier entry; once the project exists versions is never empty
\* and its first entry holds the document generated at creation.
C4_VersionsAppendOnly ==
    [][/\ CommitStep => Len(project'.versions) = Len(Versions) + 1
       /\ project.exists =>
             /\ Len(project'.versions) \in {Len(Versions), Len(Versions) + 1}
             /\ SubSeq(project'.versions, 1, Len(Versions)) = Versions
       /\ project'.exists =>
             /\ project'.versions # <<>>
             /\ project'.versions[1] =
                  [html |-> generate_site_html(project'.prompt, DefaultAccent),
                   note |-> NoteInitial]]_vars

\* A dark-mode edit of a document without the marker has been committed as
\* one more version, after a manual update.
C4_Witness ==
    /\ project.exists
    /\ Len(Versions) = 3
    /\ Versions[2].note = NoteManual
    /\ Versions[3].note = NoteDark
    /\ Versions[3].html = Versions[2].html

---------------------------------------------------------------------------
(* C5 *)

\* The instruction and the note held by a thread after its cascade, and those
\* of the last chat edit answered.
Classified ==
    {[message |-> loc[w].message, note |-> loc[w].note] : w \in {v \in Workers : pc[v] = "found"}}
        \cup (IF ChatAnswered THEN {[message |-> last.arg, note |-> last.note]} ELSE {})

\* C5: the kind a chat edit applies is the first rule, in the order SciFiTheme,
\* DarkMode, AddPricing, AccentRecolor, with a keyword in the lower-cased
\* instruction, and Regenerate exactly when no rule has one; so "pricing and
\* dark mode" is answered "Darkened base colors" and "crimson sci-fi" is
\* answered "Applied sci-fi theme".
C5_FirstMatchWins ==
    \A c \in Classified :
        /\ c.note = ExpectedNote(c.message)
        /\ c.note = NoteRegenerated <=> IsRegenerate(c.message)
        /\ c.message = MsgPricingAndDarkMode => c.note = NoteDark
        /\ c.message = MsgCrimsonSciFi => c.note = NoteSciFi

\* An instruction with keywords of two rules was answered, after a dark-mode
\* edit that changed the document.
C5_Witness ==
    /\ ChatAnswered
    /\ last.arg = MsgPricingAndDarkMode
    /\ Cardinality(Matching(last.arg)) = 2
    /\ last.note = NoteDark
    /\ project.history[3].content = NoteDark
    /\ Versions[2].html # Versions[1].html

---------------------------------------------------------------------------
(* C6 *)

\* C6: after any earlier edits, a chat edit whose instruction i matches no
\* rule returns and stores the document synthesized from
\* "<creation prompt> -- i", whatever the current document was; the stored
\* prompt is always the prompt of creation (the first conversation entry).
C6_RegenerateFromCreationPrompt ==
    /\ project.exists => project.prompt = project.history[1].content
    /\ (ChatAnswered /\ IsRegenerate(last.arg)) =>
          /\ last.html = generate_site_html(
                 project.history[1].content \o CombineSeparator \o last.arg, DefaultAccent)
          /\ project.html = last.html

\* A regeneration after a pricing edit: the pricing section is gone.
C6_Witness ==
    /\ ChatAnswered
    /\ Len(Versions) = 3
    /\ Versions[2].note = NotePricing
    /\ Versions[3].note = NoteRegenerated
    /\ Occurrences(Versions[2].html, PricingInsertion) = 1
    /\ Occurrences(project.html, PricingInsertion) = 0

---------------------------------------------------------------------------
(* C7 *)

\* Every edit since creation was a pricing edit.
OnlyPricingEdits ==
    /\ project.exists
    /\ \A n \in 2..Len(Versions) : Versions[n].note = NotePricing

\* C7 as stated: from a freshly synthesized document, after k pricing edits
\* the current document holds exactly k pricing sections.
C7_Original ==
    OnlyPricingEdits => Occurrences(project.html, PricingInsertion) = Len(Versions) - 1

\* C7 as amended: a pricing edit puts one copy of the pricing section right
\* before every "</main>" of the document it read and removes nothing; a
\* fresh document whose prompt does not contain "</main>" in any letter case
\* has one (the title is the prompt lower-cased after its first character),
\* so after k pricing edits, each on the result of the one before, it holds
\* exactly k.
C7_PricingBeforeEveryMainClose ==
    /\ (ChatAnswered /\ last.note = NotePricing) =>
          /\ Occurrences(last.html, PricingInsertion) =
                Occurrences(last.doc, PricingInsertion) + Occurrences(last.doc, MainClose)
          /\ Occurrences(last.html, MainClose) = Occurrences(last.doc, MainClose)
          /\ Occurrences(last.html, PricingInsertion \o MainClose) =
                Occurrences(last.doc, MainClose)
          /\ Len(last.html) = Len(last.doc) + Occurrences(last.doc, MainClose)
    /\ (OnlyPricingEdits /\ ~contains(lower(project.prompt), MainClose)) =>
          /\ Occurrences(Versions[1].html, MainClose) = 1
          /\ Occurrences(project.html, PricingInsertion) = Len(Versions) - 1

\* Two pricing edits on a fresh document left two pricing sections.
C7_Witness ==
    /\ OnlyPricingEdits
    /\ ChatAnswered
    /\ Len(Versions) = 3
    /\ ~contains(lower(project.prompt), MainClose)
    /\ Occurrences(project.html, PricingInsertion) = 2
    /\ Occurrences(project.html, PricingInsertion \o PricingInsertion \o MainClose) = 1

---------------------------------------------------------------------------
(* C8 *)

\* C8: a chat edit on a stored project whose versions list is empty fails
\* and leaves the project as it was.
C8_RejectsEmptyVersions ==
    [][\A w \in Workers :
         (project.exists /\ Versions = <<>> /\ chat_update(w)) =>
             (project' = project /\ last'.status # 200)]_vars

---------------------------------------------------------------------------
(* C9 *)

\* C9: a chat edit of a targeted kind on a document that holds none of the
\* markers the kind replaces goes through, returns and stores the document
\* it read, unchanged, and still reports the note of the kind.
C9_AbsentMarkerIsNoOp ==
    (/\ ChatAnswered
     /\ ~IsRegenerate(last.arg)
     /\ \A marker \in FirstMatch(last.arg).targets : ~contains(last.doc, marker)) =>
        /\ last.html = last.doc
        /\ project.html = last.doc
        /\ last.note = FirstMatch(last.arg).note

\* A dark-mode edit after the sci-fi theme replaced the base background.
C9_Witness ==
    /\ ChatAnswered
    /\ Len(Versions) = 3
    /\ Versions[2].note = NoteSciFi
    /\ Versions[3].note = NoteDark
    /\ Versions[2].html # Versions[1].html
    /\ ~contains(last.doc, BaseBackground)
    /\ Versions[3].html = Versions[2].html

---------------------------------------------------------------------------
(* C10 *)

TitleCaseOf(ch) == IF ch \in DOMAIN ToTitle THEN ToTitle[ch] ELSE <<ch>>

LowerCaseOf(ch) == IF ch \in DOMAIN ToLower THEN ToLower[ch] ELSE <<ch>>

\* C10 as stated: the title of the document created for prompt p is p
\* stripped, its first character upper-cased, the others unchanged, cut to 60;
\* the fallback title when nothing is left of p.
C10_Original ==
    (last.op = "create" /\ last.status = 200) =>
        LET p == strip(last.arg)
            title == TitleIn(last.html)
        IN  IF p = <<>> THEN title = FallbackTitle
            ELSE title = slice(TitleCaseOf(p[1]) \o Tail(p), TitleLimit)

\* C10 as amended: the title is the stripped p with its first character in
\* title case (one character for most, several for some: "Ss" for the sharp
\* s) and every other character lower-cased, and of that the first 60
\* characters; the fallback title when nothing is left of p.
C10_TitleCapitalized ==
    (last.op = "create" /\ last.status = 200) =>
        LET p == strip(last.arg)
            title == TitleIn(last.html)
            cased == TitleCaseOf(p[1]) \o
                         concat([n \in 1..(Len(p) - 1) |-> LowerCaseOf(p[n + 1])])
        IN  IF p = <<>> THEN title = FallbackTitle
            ELSE /\ Len(title) = (IF Len(cased) < TitleLimit THEN Len(cased) ELSE TitleLimit)
                 /\ \A n \in 1..Len(title) : title[n] = cased[n]

\* A prompt longer than the limit, that starts with a sharp s and has
\* upper-case letters inside, was cut.
C10_Witness ==
    /\ last.op = "create"
    /\ last.status = 200
    /\ last.arg = PromptLong
    /\ Len(strip(last.arg)) > TitleLimit
    /\ Len(TitleIn(last.html)) = TitleLimit
    /\ SubSeq(TitleIn(last.html), 1, 3) = <<"S", "s", "a">>
    /\ TitleIn(last.html) # SubSeq(strip(last.arg), 1, TitleLimit)

=============================================================================
